---- MODULE Spec2Model ----
(* Model of diagonator-server's DiagonatorManager (src/src/manager.rs):    *)
(* the break timer, the constraints aggregate, the daily rollover and the  *)
(* versioned snapshot cache.                                               *)
(*                                                                         *)
(* Instants are naturals; a day is DayLen instants long and an HourMinute  *)
(* is an offset inside the day.  crate::time and crate::simulator are not  *)
(* part of the sources at hand: the clock primitives and Simulator::run    *)
(* follow the design description (triggers replayed in time order, stable  *)
(* in push order; requirement > range > break timer).                      *)
(*                                                                         *)
(* Every public operation of the manager is one action.  An operation is   *)
(* computed as a value (the *_result operators thread the manager through  *)
(* its refresh_cache calls) and committed at once.  Three variables record *)
(* what the operation did: response (what it returned), refreshes (one     *)
(* entry per refresh_cache call, with the manager before, after the        *)
(* rollover step and after the call) and entry (the manager and version    *)
(* the operation found).                                                   *)
(*                                                                         *)
(* TimerSpec drives the break timer manager on its own (unlock, lock and   *)
(* refresh called directly at non-decreasing instants); bt_timer, bt_call  *)
(* and bt_prev hold its timer, its last call and the call before that.     *)
EXTENDS Integers, Sequences, FiniteSets, TLC

\* ---------------------------------------------------------------- bounds
DayLen == 3
MaxTime == 7
MaxStep == 2
MaxReqs == 2
MaxDuration == 2
MaxVersion == 5
work_period_duration == 3
break_duration == 2

\* ------------------------------------------------------- clock primitives
None == [some |-> FALSE, v |-> 0]
Some(t) == [some |-> TRUE, v |-> t]

TimestampZERO == 0
get_date(t) == t \div DayLen
from_date_hm(date, hm) == date * DayLen + hm
from_date_hm_opt(date, hm) == IF hm.some THEN Some(from_date_hm(date, hm.v)) ELSE None

\* ---------------------------------------------------------- configuration
ConfigRequirements == << [name |-> "req1", due |-> 2] >>
ConfigLockedTimeRanges ==
    << [start |-> None, end |-> Some(1)], [start |-> Some(2), end |-> None] >>
\* the names and times of day offered to add_requirement
AddNames == {"extra"}
AddDues == {1, DayLen - 1}

\* ------------------------------------------------------------ break timer
Unlockable == [type |-> "Unlockable", until |-> 0]
Unlocked(u) == [type |-> "Unlocked", until |-> u]
Locked(u) == [type |-> "Locked", until |-> u]

BreakTimerManager_new == Unlockable

BreakTimerManager_refresh_now(timer, current_time) ==
    LET t1 == IF timer.type = "Unlocked" /\ current_time >= timer.until
              THEN Locked(current_time + break_duration)
              ELSE timer
    IN  IF t1.type = "Locked" /\ current_time >= t1.until THEN Unlockable ELSE t1

BreakTimerManager_refresh_once(timer, current_time) ==
    IF timer.type = "Unlocked" /\ current_time >= timer.until
    THEN Locked(timer.until + break_duration)
    ELSE IF timer.type = "Locked" /\ current_time >= timer.until
    THEN Unlockable
    ELSE timer

BreakTimerManager_refresh(timer, current_time) ==
    LET t1 == IF timer.type = "Unlocked" /\ current_time >= timer.until
              THEN Locked(timer.until + break_duration)
              ELSE timer
    IN  IF t1.type = "Locked" /\ current_time >= t1.until THEN Unlockable ELSE t1

BreakTimerManager_unlock_break(timer, current_time) ==
    LET t1 == BreakTimerManager_refresh(timer, current_time)
    IN  CASE t1.type = "Unlockable" ->
               [ok |-> TRUE, timer |-> Unlocked(current_time + break_duration),
                msg |-> ""]
          [] t1.type = "Locked" ->
               [ok |-> FALSE, timer |-> t1, msg |-> "Break timer is locked."]
          [] OTHER ->
               [ok |-> FALSE, timer |-> t1, msg |-> "Break timer is already unlocked."]

BreakTimerManager_unlock(timer, current_time) ==
    LET t1 == BreakTimerManager_refresh(timer, current_time)
    IN  CASE t1.type = "Unlockable" ->
               [ok |-> TRUE, timer |-> Unlocked(current_time + work_period_duration),
                msg |-> ""]
          [] t1.type = "Locked" ->
               [ok |-> FALSE, timer |-> t1, msg |-> "Break timer is locked."]
          [] OTHER ->
               [ok |-> FALSE, timer |-> t1, msg |-> "Break timer is already unlocked."]

BreakTimerManager_lock_any(timer, current_time) ==
    LET t1 == BreakTimerManager_refresh(timer, current_time)
    IN  IF t1.type # "Locked"
        THEN [ok |-> TRUE, timer |-> Locked(current_time + break_duration), msg |-> ""]
        ELSE [ok |-> FALSE, timer |-> t1, msg |-> "Break timer is not unlocked."]

BreakTimerManager_lock(timer, current_time) ==
    LET t1 == BreakTimerManager_refresh(timer, current_time)
    IN  IF t1.type = "Unlocked"
        THEN [ok |-> TRUE, timer |-> Locked(current_time + break_duration), msg |-> ""]
        ELSE [ok |-> FALSE, timer |-> t1, msg |-> "Break timer is not unlocked."]

\* -------------------------------------------------------------- simulator
\* A state change is [kind, id, time]; the simulator replays the pushed
\* changes in time order (stable in push order) up to current_time.
StateChange(kind, id, time) == [kind |-> kind, id |-> id, time |-> time]

\* change j is replayed after change i
After(sc, i, j) == sc[j].time > sc[i].time \/ (sc[j].time = sc[i].time /\ j > i)

Applied(sc, current_time) == {i \in 1..Len(sc) : sc[i].time <= current_time}

ActiveRequirements(sc, current_time) ==
    {i \in Applied(sc, current_time) : sc[i].kind = "RequirementLocked"}

ActiveRanges(sc, current_time) ==
    {i \in Applied(sc, current_time) :
        /\ sc[i].kind = "RangeLocked"
        /\ ~\E j \in Applied(sc, current_time) :
              sc[j].kind = "RangeUnlocked" /\ sc[j].id = sc[i].id /\ After(sc, i, j)}

BreakChanges(sc, current_time) ==
    {i \in Applied(sc, current_time) :
        sc[i].kind \in {"BreakTimerLocked", "BreakTimerUnlockable"}}

BreakState(sc, current_time) ==
    LET bc == BreakChanges(sc, current_time)
    IN  IF bc = {} THEN "Unlocked"
        ELSE LET last == CHOOSE i \in bc : \A j \in bc : j = i \/ After(sc, j, i)
             IN  IF sc[last].kind = "BreakTimerLocked" THEN "Locked" ELSE "Unlockable"

MinOf(S) == CHOOSE x \in S : \A y \in S : x <= y

NextChange(sc, current_time) ==
    LET later == {sc[i].time : i \in {k \in 1..Len(sc) : sc[k].time > current_time}}
    IN  IF later = {} THEN None ELSE Some(MinOf(later))

Reason(type, id) == [type |-> type, id |-> id]

Simulator_run(sc, current_time) ==
    LET reqs == ActiveRequirements(sc, current_time)
        rngs == ActiveRanges(sc, current_time)
        brk  == BreakState(sc, current_time)
        until == NextChange(sc, current_time)
    IN  IF reqs # {}
        THEN [target_state |-> "Locked", until |-> until,
              reason |-> Reason("RequirementNotMet", sc[MinOf(reqs)].id)]
        ELSE IF rngs # {}
        THEN [target_state |-> "Locked", until |-> until,
              reason |-> Reason("LockedTimeRange", sc[MinOf(rngs)].id)]
        ELSE IF brk = "Locked"
        THEN [target_state |-> "Locked", until |-> until,
              reason |-> Reason("BreakTimer", 0)]
        ELSE [target_state |-> brk, until |-> until,
              reason |-> Reason("NoConstraints", 0)]

\* ------------------------------------------------------------ constraints
RECURSIVE RequirementChanges_inverted(_)
RequirementChanges_inverted(reqs) ==
    IF reqs = <<>> THEN <<>>
    ELSE (IF Head(reqs).complete
          THEN << StateChange("RequirementLocked", Head(reqs).id, Head(reqs).due) >>
          ELSE <<>>) \o RequirementChanges_inverted(Tail(reqs))

RECURSIVE RequirementChanges(_)
RequirementChanges(reqs) ==
    IF reqs = <<>> THEN <<>>
    ELSE (IF ~Head(reqs).complete
          THEN << StateChange("RequirementLocked", Head(reqs).id, Head(reqs).due) >>
          ELSE <<>>) \o RequirementChanges(Tail(reqs))

RECURSIVE RangeChanges(_)
RangeChanges(ltrs) ==
    IF ltrs = <<>> THEN <<>>
    ELSE LET ltr == Head(ltrs)
         IN  << StateChange("RangeLocked", ltr.id,
                            IF ltr.start.some THEN ltr.start.v ELSE TimestampZERO) >>
             \o (IF ltr.end.some
                 THEN << StateChange("RangeUnlocked", ltr.id, ltr.end.v) >>
                 ELSE <<>>)
             \o RangeChanges(Tail(ltrs))

BreakTimerChanges_none(timer) ==
    CASE timer.type = "Unlocked" ->
           << StateChange("BreakTimerLocked", 0, timer.until) >>
      [] timer.type = "Locked" ->
           << StateChange("BreakTimerLocked", 0, TimestampZERO),
              StateChange("BreakTimerUnlockable", 0, timer.until) >>
      [] OTHER -> <<>>

BreakTimerChanges(timer) ==
    CASE timer.type = "Unlocked" ->
           << StateChange("BreakTimerLocked", 0, timer.until) >>
      [] timer.type = "Locked" ->
           << StateChange("BreakTimerLocked", 0, TimestampZERO),
              StateChange("BreakTimerUnlockable", 0, timer.until) >>
      [] OTHER ->
           << StateChange("BreakTimerUnlockable", 0, TimestampZERO) >>

\* the deactivation override after its lazy expiry check
ExpireOverride(du, current_time) ==
    IF du.some /\ current_time >= du.v THEN None ELSE du

DiagonatorRunning_state(target_state, du) == ~(target_state = "Unlocked")

\* enforcing flag of a snapshot
DiagonatorRunning(target_state, du) == ~(target_state = "Unlocked" \/ du.some)

\* Constraints::get_current_info: returns the refreshed aggregate and the snapshot
get_current_info(c, current_time) ==
    LET timer == BreakTimerManager_refresh(c.break_timer, current_time)
        du == ExpireOverride(c.deactivated_until, current_time)
        snapshot(result) ==
            [constraints |-> [c EXCEPT !.break_timer = timer, !.deactivated_until = du],
             info |-> [state |-> result.target_state,
                       until |-> result.until,
                       reason |-> result.reason,
                       locked_time_ranges |-> c.locked_time_ranges,
                       requirements |-> c.requirements,
                       deactivated_until |-> du,
                       diagonator_running |->
                           DiagonatorRunning(result.target_state, du)]]
    IN  snapshot(Simulator_run(RequirementChanges(c.requirements)
                               \o RangeChanges(c.locked_time_ranges)
                               \o BreakTimerChanges(timer),
                               current_time))

FindRequirement(reqs, id) == {i \in 1..Len(reqs) : reqs[i].id = id}

Constraints_complete_requirement_toggle(c, id) ==
    LET found == FindRequirement(c.requirements, id)
    IN  IF found = {}
        THEN [ok |-> FALSE, constraints |-> c, msg |-> "not found"]
        ELSE LET i == MinOf(found)
             IN  [ok |-> TRUE,
                  constraints |-> [c EXCEPT !.requirements[i].complete = ~@],
                  msg |-> ""]

Constraints_complete_requirement(c, id) ==
    LET found == FindRequirement(c.requirements, id)
    IN  IF found = {}
        THEN [ok |-> FALSE, constraints |-> c, msg |-> "not found"]
        ELSE LET i == MinOf(found)
             IN  IF ~c.requirements[i].complete
                 THEN [ok |-> TRUE,
                       constraints |-> [c EXCEPT !.requirements[i].complete = TRUE],
                       msg |-> ""]
                 ELSE [ok |-> FALSE, constraints |-> c, msg |-> "already completed"]

\* ------------------------------------------------------------ inner manager
DiagonatorManagerInner_new ==
    [constraints |-> [break_timer |-> BreakTimerManager_new,
                      requirements |-> <<>>,
                      locked_time_ranges |-> <<>>,
                      deactivated_until |-> None],
     current_date |-> get_date(TimestampZERO),
     last_id |-> 0]

new_day_keep(m) ==
    LET nr == Len(ConfigRequirements)
        nl == Len(ConfigLockedTimeRanges)
        old == m.constraints.requirements
    IN  [m EXCEPT
           !.constraints.requirements =
              [i \in 1..nr |->
                 [id |-> m.last_id + i,
                  name |-> ConfigRequirements[i].name,
                  due |-> from_date_hm(m.current_date, ConfigRequirements[i].due),
                  complete |-> IF i <= Len(old) THEN old[i].complete ELSE FALSE]],
           !.constraints.locked_time_ranges =
              [i \in 1..nl |->
                 [id |-> m.last_id + nr + i,
                  start |-> from_date_hm_opt(m.current_date, ConfigLockedTimeRanges[i].start),
                  end |-> from_date_hm_opt(m.current_date, ConfigLockedTimeRanges[i].end)]],
           !.last_id = m.last_id + nr + nl]

new_day(m) ==
    LET nr == Len(ConfigRequirements)
        nl == Len(ConfigLockedTimeRanges)
    IN  [m EXCEPT
           !.constraints.requirements =
              [i \in 1..nr |->
                 [id |-> m.last_id + i,
                  name |-> ConfigRequirements[i].name,
                  due |-> from_date_hm(m.current_date, ConfigRequirements[i].due),
                  complete |-> FALSE]],
           !.constraints.locked_time_ranges =
              [i \in 1..nl |->
                 [id |-> m.last_id + nr + i,
                  start |-> from_date_hm_opt(m.current_date, ConfigLockedTimeRanges[i].start),
                  end |-> from_date_hm_opt(m.current_date, ConfigLockedTimeRanges[i].end)]],
           !.last_id = m.last_id + nr + nl]

\* the rollover step at the head of DiagonatorManagerInner::refresh
Rollover(m, current_time) ==
    IF get_date(current_time) # m.current_date
    THEN new_day([m EXCEPT !.current_date = get_date(current_time)])
    ELSE m

\* the auto-lock step at the tail of DiagonatorManagerInner::refresh
AutoLock_skip(c, info, current_time) ==
    [constraints |-> c, info |-> info]

AutoLock(c, info, current_time) ==
    LET locked(l) ==
            IF info.diagonator_running /\ l.ok
            THEN get_current_info([c EXCEPT !.break_timer = l.timer], current_time)
            ELSE [constraints |-> [c EXCEPT !.break_timer =
                                      IF info.diagonator_running THEN l.timer ELSE @],
                  info |-> info]
    IN  locked(BreakTimerManager_lock(c.break_timer, current_time))

DiagonatorManagerInner_refresh(m, current_time) ==
    LET finish(m1, a) ==
            [manager |-> [m1 EXCEPT !.constraints = a.constraints],
             info |-> a.info,
             rolled |-> m1]
        relock(m1, g) == finish(m1, AutoLock(g.constraints, g.info, current_time))
        compute(m1) == relock(m1, get_current_info(m1.constraints, current_time))
    IN  compute(Rollover(m, current_time))

\* ------------------------------------------------------------ cache layer
VARIABLES manager, cached_info, cache_time, cache_version, response, refreshes, entry,
          bt_timer, bt_call, bt_prev

vars == <<manager, cached_info, cache_time, cache_version, response, refreshes, entry,
          bt_timer, bt_call, bt_prev>>

NO_CACHE == 0

\* The DiagonatorManager as one value.  refreshes logs the refresh_cache calls
\* of the last operation, response is what it returned and entry is the inner
\* manager as the operation found it.
Self ==
    [manager |-> manager, cached_info |-> cached_info, cache_time |-> cache_time,
     cache_version |-> cache_version, refreshes |-> <<>>]

NextVersion_always(version, changed) == version + 1

NextVersion(version, changed) == IF changed THEN version + 1 ELSE version

refresh_cache(s, current_time) ==
    LET store(r) ==
            LET changed == r.info # s.cached_info
                version == NextVersion(s.cache_version, changed)
            IN  [manager |-> r.manager,
                 cached_info |-> IF changed THEN r.info ELSE s.cached_info,
                 cache_time |-> current_time,
                 cache_version |-> version,
                 refreshes |-> Append(s.refreshes,
                     [time |-> current_time,
                      before |-> s.manager, rolled |-> r.rolled, after |-> r.manager,
                      old_info |-> s.cached_info, new_info |-> r.info,
                      old_version |-> s.cache_version, new_version |-> version])]
    IN  store(DiagonatorManagerInner_refresh(s.manager, current_time))

\* the value the last refresh_cache call returned
Returned(s) == s.refreshes[Len(s.refreshes)].new_info

Response(op, time, arg, kind, msg, info, version) ==
    [op |-> op, time |-> time, arg |-> arg, kind |-> kind, msg |-> msg,
     info |-> info, version |-> version]

Commit(s, resp) ==
    /\ manager' = s.manager
    /\ cached_info' = s.cached_info
    /\ cache_time' = s.cache_time
    /\ cache_version' = s.cache_version
    /\ refreshes' = s.refreshes
    /\ response' = resp
    /\ entry' = [manager |-> manager, cache_version |-> cache_version]
    /\ UNCHANGED <<bt_timer, bt_call, bt_prev>>

WithTimer(s, timer) == [s EXCEPT !.manager.constraints.break_timer = timer]

\* the model stops issuing operations once the version counter reaches MaxVersion
Bounded == cache_version < MaxVersion

\* instants a caller may supply: the clock never runs backwards
Times == {t \in cache_time..(cache_time + MaxStep) : t <= MaxTime}

DiagonatorManager_new_zero(current_time) ==
    LET built(r) ==
            [manager |-> r.manager, cached_info |-> r.info, cache_time |-> current_time,
             cache_version |-> NO_CACHE]
    IN  built(DiagonatorManagerInner_refresh(DiagonatorManagerInner_new, current_time))

DiagonatorManager_new(current_time) ==
    LET built(r) ==
            [manager |-> r.manager, cached_info |-> r.info, cache_time |-> current_time,
             cache_version |-> NO_CACHE + 1]
    IN  built(DiagonatorManagerInner_refresh(DiagonatorManagerInner_new, current_time))

\* the service is started on the first modelled day after the epoch date
StartTimes == {t \in DayLen..(2 * DayLen - 1) : t <= DayLen + MaxStep}

\* a break timer manager driven on its own: its timer, its last call and the
\* call before that
TimerCall(op, now, before, ok, after) ==
    [op |-> op, now |-> now, before |-> before, ok |-> ok, after |-> after]

Init ==
    \E t0 \in StartTimes :
        \E s \in {DiagonatorManager_new(t0)} :
            /\ manager = s.manager
            /\ cached_info = s.cached_info
            /\ cache_time = s.cache_time
            /\ cache_version = s.cache_version
            /\ refreshes = <<>>
            /\ entry = [manager |-> s.manager, cache_version |-> s.cache_version]
            /\ response = Response("new", t0, 0, "Success", "", <<>>, 0)
            /\ bt_timer = BreakTimerManager_new
            /\ bt_call = TimerCall("new", TimestampZERO, BreakTimerManager_new,
                                   TRUE, BreakTimerManager_new)
            /\ bt_prev = TimerCall("new", TimestampZERO, BreakTimerManager_new,
                                   TRUE, BreakTimerManager_new)

unlock_timer_result_eager(s0, current_time) ==
    LET unlocked(s1, u) ==
            IF u.ok
            THEN IF Returned(s1).state = "Unlockable"
                 THEN [s |-> refresh_cache(WithTimer(s1, u.timer), current_time),
                       kind |-> "Success", msg |-> ""]
                 ELSE [s |-> WithTimer(s1, u.timer), kind |-> "Error",
                       msg |-> "Session is not unlockable."]
            ELSE [s |-> WithTimer(s1, u.timer), kind |-> "Error", msg |-> u.msg]
        refreshed(s1) ==
            unlocked(s1, BreakTimerManager_unlock(s1.manager.constraints.break_timer,
                                                  current_time))
    IN  refreshed(refresh_cache(s0, current_time))

unlock_timer_result_unrefreshed(s0, current_time) ==
    LET unlocked(s1, u) ==
            IF u.ok
            THEN [s |-> WithTimer(s1, u.timer), kind |-> "Success", msg |-> ""]
            ELSE [s |-> WithTimer(s1, u.timer), kind |-> "Error", msg |-> u.msg]
        refreshed(s1) ==
            IF Returned(s1).state = "Unlockable"
            THEN unlocked(s1, BreakTimerManager_unlock(
                                  s1.manager.constraints.break_timer, current_time))
            ELSE [s |-> s1, kind |-> "Error", msg |-> "Session is not unlockable."]
    IN  refreshed(refresh_cache(s0, current_time))

unlock_timer_result(s0, current_time) ==
    LET unlocked(s1, u) ==
            IF u.ok
            THEN [s |-> refresh_cache(WithTimer(s1, u.timer), current_time),
                  kind |-> "Success", msg |-> ""]
            ELSE [s |-> WithTimer(s1, u.timer), kind |-> "Error", msg |-> u.msg]
        refreshed(s1) ==
            IF Returned(s1).state = "Unlockable"
            THEN unlocked(s1, BreakTimerManager_unlock(
                                  s1.manager.constraints.break_timer, current_time))
            ELSE [s |-> s1, kind |-> "Error", msg |-> "Session is not unlockable."]
    IN  refreshed(refresh_cache(s0, current_time))

unlock_timer ==
    /\ Bounded
    /\ \E current_time \in Times :
          \E r \in {unlock_timer_result(Self, current_time)} :
             Commit(r.s, Response("unlock_timer", current_time, 0, r.kind, r.msg, <<>>, 0))

lock_timer_result_keep(s0, current_time) ==
    LET locked(s1, l) ==
            IF l.ok
            THEN [s |-> refresh_cache(WithTimer(s1, l.timer), current_time),
                  kind |-> "Success", msg |-> ""]
            ELSE [s |-> WithTimer(s1, l.timer), kind |-> "Error", msg |-> l.msg]
        refreshed(s1) ==
            locked(s1, BreakTimerManager_lock(s1.manager.constraints.break_timer,
                                              current_time))
    IN  refreshed(refresh_cache(s0, current_time))

lock_timer_result_early(s0, current_time) ==
    LET locked(s1, l) ==
            IF l.ok
            THEN [s |-> refresh_cache(WithTimer(s1, l.timer), current_time),
                  kind |-> "Success", msg |-> ""]
            ELSE [s |-> refresh_cache(WithTimer(s1, l.timer), current_time),
                  kind |-> "Error", msg |-> l.msg]
        cleared(s1) ==
            locked(s1, BreakTimerManager_lock(s1.manager.constraints.break_timer,
                                              current_time))
    IN  cleared([s0 EXCEPT !.manager.constraints.deactivated_until = None])

lock_timer_result(s0, current_time) ==
    LET locked(s1, l) ==
            IF l.ok
            THEN [s |-> refresh_cache(WithTimer(s1, l.timer), current_time),
                  kind |-> "Success", msg |-> ""]
            ELSE [s |-> WithTimer(s1, l.timer), kind |-> "Error", msg |-> l.msg]
        refreshed(s1) ==
            locked(s1, BreakTimerManager_lock(s1.manager.constraints.break_timer,
                                              current_time))
    IN  refreshed(refresh_cache([s0 EXCEPT !.manager.constraints.deactivated_until = None], current_time))

lock_timer ==
    /\ Bounded
    /\ \E current_time \in Times :
          \E r \in {lock_timer_result(Self, current_time)} :
             Commit(r.s, Response("lock_timer", current_time, 0, r.kind, r.msg, <<>>, 0))

get_info ==
    /\ Bounded
    /\ Commit(Self, Response("get_info", cache_time, 0, "Info", "", <<cached_info>>, 0))

get_info_if_changed_result_stale(s0, version, current_time) ==
    LET answer(s1) ==
            IF version # s0.cache_version
            THEN [s |-> s1, kind |-> "Some", info |-> <<s1.cached_info>>,
                  version |-> s1.cache_version]
            ELSE [s |-> s1, kind |-> "None", info |-> <<>>, version |-> 0]
    IN  answer(IF current_time # s0.cache_time
               THEN refresh_cache(s0, current_time)
               ELSE s0)

get_info_if_changed_result(s0, version, current_time) ==
    LET answer(s1) ==
            IF version # s1.cache_version
            THEN [s |-> s1, kind |-> "Some", info |-> <<s1.cached_info>>,
                  version |-> s1.cache_version]
            ELSE [s |-> s1, kind |-> "None", info |-> <<>>, version |-> 0]
    IN  answer(IF current_time # s0.cache_time
               THEN refresh_cache(s0, current_time)
               ELSE s0)

Versions == {NO_CACHE, cache_version, cache_version + 1}

get_info_if_changed ==
    /\ Bounded
    /\ \E current_time \in Times, version \in Versions :
          \E r \in {get_info_if_changed_result(Self, version, current_time)} :
             Commit(r.s, Response("get_info_if_changed", current_time, version,
                                  r.kind, "", r.info, r.version))

get_info_once ==
    /\ Bounded
    /\ \E current_time \in Times :
          \E s1 \in {refresh_cache(Self, current_time)} :
             Commit(s1, Response("get_info_once", current_time, 0, "Info", "",
                                 <<Returned(s1)>>, 0))

complete_requirement_result(s0, current_time, requirement_id) ==
    LET completed(s1, c) ==
            IF c.ok
            THEN [s |-> refresh_cache([s1 EXCEPT !.manager.constraints = c.constraints],
                                      current_time),
                  kind |-> "Success", msg |-> ""]
            ELSE [s |-> s1, kind |-> "Error", msg |-> c.msg]
        refreshed(s1) ==
            completed(s1, Constraints_complete_requirement(s1.manager.constraints,
                                                           requirement_id))
    IN  refreshed(refresh_cache(s0, current_time))

complete_requirement ==
    /\ Bounded
    /\ \E current_time \in Times, requirement_id \in 1..(manager.last_id + 1) :
          \E r \in {complete_requirement_result(Self, current_time, requirement_id)} :
             Commit(r.s, Response("complete_requirement", current_time, requirement_id,
                                  r.kind, r.msg, <<>>, 0))

add_requirement_result_reuse(s0, current_time, name, due) ==
    LET pushed(s1) ==
            LET id == s1.manager.last_id
                req == [id |-> id, name |-> name,
                        due |-> from_date_hm(s1.manager.current_date, due),
                        complete |-> FALSE]
            IN  [s1 EXCEPT !.manager.last_id = id,
                           !.manager.constraints.requirements = Append(@, req)]
    IN  refresh_cache(pushed(refresh_cache(s0, current_time)), current_time)

add_requirement_result_stale(s0, current_time, name, due) ==
    LET pushed(s1) ==
            LET id == s1.manager.last_id + 1
                req == [id |-> id, name |-> name,
                        due |-> from_date_hm(s0.manager.current_date, due),
                        complete |-> FALSE]
            IN  [s1 EXCEPT !.manager.last_id = id,
                           !.manager.constraints.requirements = Append(@, req)]
    IN  refresh_cache(pushed(refresh_cache(s0, current_time)), current_time)

add_requirement_result(s0, current_time, name, due) ==
    LET pushed(s1) ==
            LET id == s1.manager.last_id + 1
                req == [id |-> id, name |-> name,
                        due |-> from_date_hm(s1.manager.current_date, due),
                        complete |-> FALSE]
            IN  [s1 EXCEPT !.manager.last_id = id,
                           !.manager.constraints.requirements = Append(@, req)]
    IN  refresh_cache(pushed(refresh_cache(s0, current_time)), current_time)

add_requirement ==
    /\ Bounded
    /\ \E current_time \in Times, name \in AddNames, due \in AddDues :
          /\ Len(Rollover(manager, current_time).constraints.requirements) < MaxReqs
          /\ \E s2 \in {add_requirement_result(Self, current_time, name, due)} :
                Commit(s2, Response("add_requirement", current_time, due,
                                    "Success", "", <<>>, 0))

deactivate_result_late(s0, current_time, duration) ==
    [refresh_cache(s0, current_time)
        EXCEPT !.manager.constraints.deactivated_until = Some(current_time + duration)]

deactivate_result(s0, current_time, duration) ==
    refresh_cache([s0 EXCEPT !.manager.constraints.deactivated_until =
                                 Some(current_time + duration)],
                  current_time)

deactivate ==
    /\ Bounded
    /\ \E current_time \in Times, duration \in 0..MaxDuration :
          \E s1 \in {deactivate_result(Self, current_time, duration)} :
             Commit(s1, Response("deactivate", current_time, duration,
                                 "Success", "", <<>>, 0))

Next ==
    \/ unlock_timer
    \/ lock_timer
    \/ get_info
    \/ get_info_if_changed
    \/ get_info_once
    \/ complete_requirement
    \/ add_requirement
    \/ deactivate

Spec == Init /\ [][Next]_vars

\* ------------------------------------------------- break timer on its own
\* The break timer manager's three operations called directly, at
\* non-decreasing instants, on a manager built by BreakTimerManager::new.
TimerTimes == bt_call.now..MaxTime

TimerCommit(call) ==
    /\ bt_timer' = call.after
    /\ bt_call' = call
    /\ bt_prev' = bt_call
    /\ UNCHANGED <<manager, cached_info, cache_time, cache_version, response,
                   refreshes, entry>>

timer_refresh ==
    \E now \in TimerTimes :
       TimerCommit(TimerCall("refresh", now, bt_timer, TRUE,
                             BreakTimerManager_refresh(bt_timer, now)))

timer_unlock ==
    \E now \in TimerTimes :
       \E r \in {BreakTimerManager_unlock(bt_timer, now)} :
          TimerCommit(TimerCall("unlock", now, bt_timer, r.ok, r.timer))

timer_lock ==
    \E now \in TimerTimes :
       \E r \in {BreakTimerManager_lock(bt_timer, now)} :
          TimerCommit(TimerCall("lock", now, bt_timer, r.ok, r.timer))

TimerNext == timer_refresh \/ timer_unlock \/ timer_lock

TimerSpec == Init /\ [][TimerNext]_vars

\* ================================================================ claims
Bump(e) == IF e.new_info # e.old_info THEN 1 ELSE 0

RefreshStep(e) == e.new_version = e.old_version + Bump(e)

\* the refresh_cache calls of one operation follow one another
Chained(log, version0, version1) ==
    /\ log = <<>> => version1 = version0
    /\ log # <<>> =>
         /\ log[1].old_version = version0
         /\ log[Len(log)].new_version = version1
         /\ \A i \in 1..(Len(log) - 1) :
               /\ log[i + 1].old_version = log[i].new_version
               /\ log[i + 1].old_info = log[i].new_info

\* C1: every refresh_cache call raises cache_version by exactly 1 when the
\* newly derived snapshot differs by value from the cached one and leaves it
\* unchanged otherwise; cache_version changes in no other way and never
\* decreases.
C1_CacheVersion ==
    /\ \A i \in 1..Len(refreshes) : RefreshStep(refreshes[i])
    /\ Chained(refreshes, entry.cache_version, cache_version)
    /\ cache_version >= entry.cache_version

\* an unlock_timer whose first recomputation left the version alone and whose
\* second one raised it
C1_Witness ==
    /\ response.op = "unlock_timer"
    /\ Len(refreshes) = 2
    /\ Bump(refreshes[1]) = 0 /\ refreshes[1].new_version = refreshes[1].old_version
    /\ Bump(refreshes[2]) = 1 /\ refreshes[2].new_version = refreshes[2].old_version + 1

IsPoll(r) == r.op = "get_info_if_changed"

\* C2: get_info_if_changed at the instant of the cache never raises
\* cache_version; a caller passing the version it holds (the one it was last
\* given, or the one that was last answered "unchanged") at the same instant
\* receives None; the call returns a pair exactly when the supplied version
\* differs from the cache's version after the recomputation, and the pair
\* carries the cached snapshot and the cache's current version.
C2_PollUnchanged ==
    [][IsPoll(response') =>
         /\ response'.time = cache_time => cache_version' = cache_version
         /\ (/\ IsPoll(response)
             /\ response'.time = response.time
             /\ response'.arg = (IF response.kind = "Some" THEN response.version
                                 ELSE response.arg))
            => response'.kind = "None"
         /\ response'.kind = "Some" <=> response'.arg # cache_version'
         /\ response'.kind = "Some" =>
               /\ response'.version = cache_version'
               /\ response'.info = <<cached_info'>>
         /\ response'.kind \in {"Some", "None"}]_vars

\* a poll that recomputed, saw a new version and was answered with it, and a
\* poll with the current version that was answered "unchanged"
C2_Witness ==
    /\ IsPoll(response)
    /\ response.kind = "None"
    /\ response.arg = cache_version
    /\ refreshes = <<>>
    /\ cache_version > NO_CACHE + 1

\* C3: cache_version is at least 1 in every state, so a poll with version 0
\* is always answered with a snapshot.
C3_VersionZeroReserved ==
    /\ cache_version >= NO_CACHE + 1
    /\ (IsPoll(response) /\ response.arg = NO_CACHE) =>
          /\ response.kind = "Some"
          /\ response.version >= NO_CACHE + 1

\* a first-time poll answered after earlier operations
C3_Witness ==
    /\ IsPoll(response)
    /\ response.arg = NO_CACHE
    /\ response.kind = "Some"
    /\ response.version > NO_CACHE + 1

Mutating == {"unlock_timer", "lock_timer", "complete_requirement"}

Failed == response.op \in Mutating /\ response.kind = "Error"

\* the aggregate as the last operation found it and as it left it
Before == entry.manager.constraints
Now == manager.constraints

\* C4 as stated: when unlock_timer, lock_timer or complete_requirement returns
\* an error, the break timer, the requirement list, the locked-range list and
\* the deactivation override are what they were before the call.
C4_Original == Failed => Now = Before

\* what a plain recomputation at the call's instant leaves of the state the
\* operation found (lock_timer clears the override first)
Recomputed ==
    LET m0 == IF response.op = "lock_timer"
              THEN [entry.manager EXCEPT !.constraints.deactivated_until = None]
              ELSE entry.manager
    IN  DiagonatorManagerInner_refresh(m0, response.time).manager

\* C4 amended: a failed unlock_timer, lock_timer or complete_requirement has
\* applied none of its own mutation: the state is exactly what the
\* recomputation at T leaves (lazy break-timer refresh and auto-lock, lists
\* replaced on a date change, expired override dropped), with the override
\* also cleared by lock_timer; without a date change the lists are untouched.
C4_FailedIsRecomputation ==
    Failed =>
       /\ manager = Recomputed
       /\ get_date(response.time) = entry.manager.current_date =>
             /\ Now.requirements = Before.requirements
             /\ Now.locked_time_ranges = Before.locked_time_ranges
       /\ response.op # "lock_timer" =>
             Now.deactivated_until =
                ExpireOverride(Before.deactivated_until, response.time)

\* a failed lock_timer that nevertheless cleared a live override
C4_Witness ==
    /\ Failed
    /\ response.op = "lock_timer"
    /\ Before.deactivated_until.some
    /\ Before.deactivated_until.v > response.time
    /\ Now.deactivated_until = None

\* C5: unlock_timer succeeds only if the state computed at T is Unlockable,
\* and then leaves the break timer Unlocked until T + work_period; in every
\* other computed state it returns an error and the break timer does not
\* become Unlocked.
C5_UnlockOnlyWhenUnlockable ==
    response.op = "unlock_timer" =>
       LET computed == refreshes[1].new_info.state
       IN  /\ response.kind \in {"Success", "Error"}
           /\ response.kind = "Success" =>
                 /\ computed = "Unlockable"
                 /\ Now.break_timer = Unlocked(response.time + work_period_duration)
           /\ computed # "Unlockable" =>
                 /\ response.kind = "Error"
                 /\ Now.break_timer.type = "Unlocked" =>
                       Before.break_timer = Now.break_timer

\* an unlock granted once the break had run out
C5_Witness ==
    /\ response.op = "unlock_timer"
    /\ response.kind = "Success"
    /\ Before.break_timer.type = "Locked"
    /\ Now.break_timer.type = "Unlocked"

\* C6: lock_timer clears the deactivation override whatever its outcome; it
\* fails if the break timer is not Unlocked at T; on success the break timer is
\* Locked until T + break_duration.
C6_LockClearsOverride ==
    response.op = "lock_timer" =>
       /\ Now.deactivated_until = None
       /\ refreshes[1].before.constraints.deactivated_until = None
       /\ BreakTimerManager_refresh(Before.break_timer, response.time).type # "Unlocked"
             => response.kind = "Error"
       /\ response.kind = "Error" =>
             /\ response.msg = "Break timer is not unlocked."
             /\ Now.break_timer.type # "Unlocked"
       /\ response.kind = "Success" =>
             Now.break_timer = Locked(response.time + break_duration)
       /\ response.kind \in {"Success", "Error"}

\* a successful lock that ended a live override
C6_Witness ==
    /\ response.op = "lock_timer"
    /\ response.kind = "Success"
    /\ Before.deactivated_until.some
    /\ Before.deactivated_until.v > response.time

SameDay == manager.current_date = entry.manager.current_date

\* C7: complete_requirement fails with not-found when no requirement of the
\* current day has the id, with already-complete when that requirement is
\* complete, and otherwise sets exactly that requirement's flag; within a day
\* no operation resets a complete flag, and completing an id that is already
\* complete fails.
C7_CompleteOnce ==
    /\ response.op = "complete_requirement" =>
          LET reqs == refreshes[1].after.constraints.requirements
              found == FindRequirement(reqs, response.arg)
          IN  /\ found = {} =>
                    response.kind = "Error" /\ response.msg = "not found"
              /\ \A i \in found :
                    /\ reqs[i].complete =>
                          /\ response.kind = "Error"
                          /\ response.msg = "already completed"
                          /\ Now.requirements = reqs
                    /\ ~reqs[i].complete =>
                          /\ response.kind = "Success"
                          /\ Now.requirements = [reqs EXCEPT ![i].complete = TRUE]
              /\ (\E i \in 1..Len(Before.requirements) :
                     /\ Before.requirements[i].id = response.arg
                     /\ Before.requirements[i].complete)
                    => response.kind = "Error"
    /\ SameDay =>
          \A i \in 1..Len(Before.requirements) :
             Before.requirements[i].complete =>
                /\ i <= Len(Now.requirements)
                /\ Now.requirements[i].id = Before.requirements[i].id
                /\ Now.requirements[i].complete

\* a second completion of the same requirement on the same day, rejected
C7_Witness ==
    /\ response.op = "complete_requirement"
    /\ response.kind = "Error"
    /\ response.msg = "already completed"
    /\ SameDay

\* is an override with an instant later than t set
Overridden(du, t) == du.some /\ du.v > t

\* C8: in every snapshot computed at T, diagonator_running is false exactly
\* when the snapshot's state is Unlocked or an override with instant > T is
\* set.
C8_Enforcing ==
    /\ \A i \in 1..Len(refreshes) :
          LET e == refreshes[i]
          IN  e.new_info.diagonator_running =
                 ~(\/ e.new_info.state = "Unlocked"
                   \/ Overridden(e.before.constraints.deactivated_until, e.time))
    /\ cached_info.diagonator_running =
          ~(\/ cached_info.state = "Unlocked"
            \/ Overridden(Now.deactivated_until, cache_time))

\* a snapshot of a locked session whose enforcement the override suppresses
C8_Witness ==
    \E i \in 1..Len(refreshes) :
       /\ refreshes[i].new_info.state = "Locked"
       /\ Overridden(refreshes[i].before.constraints.deactivated_until, refreshes[i].time)
       /\ ~refreshes[i].new_info.diagonator_running

\* the override in force while the last operation recomputed
OverrideInForce ==
    CASE response.op = "deactivate" -> Some(response.time + response.arg)
      [] response.op = "lock_timer" -> None
      [] OTHER -> Before.deactivated_until

\* C9: deactivate always succeeds and sets the override to T + d; while no
\* lock_timer or deactivate intervenes every snapshot computed before T + d
\* reports the override and diagonator_running = FALSE, and the first
\* snapshot computed at or after T + d has deactivated_until = None; no
\* snapshot reports a deactivated_until at or before its own instant.
C9_Deactivate ==
    /\ response.op = "deactivate" =>
          /\ response.kind = "Success"
          /\ refreshes[1].before.constraints.deactivated_until = OverrideInForce
          /\ Now.deactivated_until = ExpireOverride(OverrideInForce, response.time)
    /\ \A i \in 1..Len(refreshes) :
          LET e == refreshes[i]
          IN  /\ Overridden(OverrideInForce, e.time) =>
                    /\ ~e.new_info.diagonator_running
                    /\ e.new_info.deactivated_until = OverrideInForce
                    /\ e.after.constraints.deactivated_until = OverrideInForce
              /\ ~Overridden(OverrideInForce, e.time) =>
                    /\ e.new_info.deactivated_until = None
                    /\ e.after.constraints.deactivated_until = None
              /\ e.new_info.deactivated_until.some =>
                    e.new_info.deactivated_until.v > e.time
    /\ cached_info.deactivated_until.some => cached_info.deactivated_until.v > cache_time

\* a later operation, not the deactivate itself, that computed a locked state
\* under a still-running override
C9_Witness ==
    /\ response.op \in {"get_info_once", "get_info_if_changed", "unlock_timer"}
    /\ Before.deactivated_until.some
    /\ Before.deactivated_until.v > response.time
    /\ refreshes # <<>>
    /\ refreshes[1].time > entry.manager.current_date * DayLen
    /\ refreshes[1].new_info.state = "Locked"
    /\ ~refreshes[1].new_info.diagonator_running

RolledOver(e) == get_date(e.time) # e.before.current_date

\* C10: a recomputation whose date differs from the stored one replaces the
\* requirement and range lists by one fresh instance per template (new ids,
\* complete = FALSE, instants on the new date), dropping added requirements
\* and completions; the rollover step leaves the break timer and the override
\* as they were; a recomputation on the stored date replaces nothing.
C10_Rollover ==
    \A k \in 1..Len(refreshes) :
       LET e == refreshes[k]
           date == get_date(e.time)
           reqs == e.rolled.constraints.requirements
           ltrs == e.rolled.constraints.locked_time_ranges
       IN  /\ ~RolledOver(e) => e.rolled = e.before
           /\ RolledOver(e) =>
                 /\ e.rolled.current_date = date
                 /\ Len(reqs) = Len(ConfigRequirements)
                 /\ Len(ltrs) = Len(ConfigLockedTimeRanges)
                 /\ \A i \in 1..Len(reqs) :
                       /\ reqs[i].id > e.before.last_id
                       /\ reqs[i].id <= e.rolled.last_id
                       /\ reqs[i].name = ConfigRequirements[i].name
                       /\ reqs[i].due = date * DayLen + ConfigRequirements[i].due
                       /\ ~reqs[i].complete
                 /\ \A i \in 1..Len(ltrs) :
                       /\ ltrs[i].id > e.before.last_id
                       /\ ltrs[i].id <= e.rolled.last_id
                       /\ ltrs[i].start =
                             from_date_hm_opt(date, ConfigLockedTimeRanges[i].start)
                       /\ ltrs[i].end =
                             from_date_hm_opt(date, ConfigLockedTimeRanges[i].end)
                 /\ Cardinality({reqs[i].id : i \in 1..Len(reqs)}
                                \cup {ltrs[i].id : i \in 1..Len(ltrs)})
                       = Len(reqs) + Len(ltrs)
                 /\ e.rolled.constraints.break_timer = e.before.constraints.break_timer
                 /\ e.rolled.constraints.deactivated_until =
                       e.before.constraints.deactivated_until
                 /\ e.after.constraints.requirements = reqs
                 /\ e.after.constraints.locked_time_ranges = ltrs

\* a rollover that dropped an added requirement and a completion while the
\* break timer was not idle
C10_Witness ==
    \E k \in 1..Len(refreshes) :
       LET e == refreshes[k]
           old == e.before.constraints.requirements
       IN  /\ RolledOver(e)
           /\ e.before.current_date > get_date(TimestampZERO)
           /\ Len(old) > Len(ConfigRequirements)
           /\ \E i \in 1..Len(old) : old[i].complete
           /\ e.before.constraints.break_timer.type # "Unlockable"

RequirementIds(c) == {c.requirements[i].id : i \in 1..Len(c.requirements)}

RangeIds(c) == {c.locked_time_ranges[i].id : i \in 1..Len(c.locked_time_ranges)}

IssuedIds(c) == RequirementIds(c) \cup RangeIds(c)

\* C11: every id the generator issues is strictly greater than every id it
\* issued before (the counter never goes back and an id that appears during
\* an operation is above the counter the operation started from), so no id
\* is reused, and the ids of the current day's requirements and ranges are
\* pairwise distinct in every reachable state.
C11_FreshIds ==
    /\ manager.last_id >= entry.manager.last_id
    /\ \A k \in 1..Len(refreshes) :
          /\ refreshes[k].before.last_id >= entry.manager.last_id
          /\ refreshes[k].after.last_id >= refreshes[k].before.last_id
          /\ manager.last_id >= refreshes[k].after.last_id
    /\ \A id \in IssuedIds(Now) : id >= 1 /\ id <= manager.last_id
    /\ \A id \in IssuedIds(Now) \ IssuedIds(Before) : id > entry.manager.last_id
    /\ Cardinality(IssuedIds(Now)) =
          Len(Now.requirements) + Len(Now.locked_time_ranges)
    /\ \A i, j \in 1..Len(Now.requirements) :
          i < j => Now.requirements[i].id < Now.requirements[j].id
    /\ \A i, j \in 1..Len(Now.locked_time_ranges) :
          i < j => Now.locked_time_ranges[i].id < Now.locked_time_ranges[j].id

\* one operation rolled the day over and then added a requirement: the
\* generator issued ids for the templates and for the addition
C11_Witness ==
    /\ response.op = "add_requirement"
    /\ manager.last_id =
          entry.manager.last_id + Len(ConfigRequirements)
             + Len(ConfigLockedTimeRanges) + 1
    /\ IssuedIds(Now) \cap IssuedIds(Before) = {}
    /\ entry.manager.last_id > 0

\* the snapshot first computed by recomputation e, before any auto-lock
FirstPass(e) == get_current_info(e.rolled.constraints, e.time)

\* recomputation e found enforcement on while the refreshed timer was Unlocked
AutoLockFires(e) ==
    /\ FirstPass(e).info.diagonator_running
    /\ FirstPass(e).constraints.break_timer.type = "Unlocked"

\* C12: in every recomputation, if the snapshot first computed has
\* enforcing = true and the break timer is Unlocked, the timer is locked to
\* Locked{until = T + break_duration} and the snapshot is computed again
\* (it still enforces); otherwise the timer is left as the lazy refresh put
\* it. No recomputation returns enforcing = true with the timer Unlocked,
\* and the cached snapshot never enforces while the timer is Unlocked.
C12_AutoLock ==
    /\ cached_info.diagonator_running => Now.break_timer.type # "Unlocked"
    /\ \A k \in 1..Len(refreshes) :
          LET e == refreshes[k]
              timer == e.after.constraints.break_timer
          IN  /\ e.new_info.diagonator_running => timer.type # "Unlocked"
              /\ AutoLockFires(e) =>
                    /\ timer = Locked(e.time + break_duration)
                    /\ e.new_info.diagonator_running
                    /\ e.new_info.state = "Locked"
              /\ ~AutoLockFires(e) =>
                    /\ timer = FirstPass(e).constraints.break_timer
                    /\ e.new_info = FirstPass(e).info

\* the auto-lock fired on a work period that had not run out
C12_Witness ==
    \E k \in 1..Len(refreshes) :
       LET e == refreshes[k]
       IN  /\ AutoLockFires(e)
           /\ e.before.constraints.break_timer.type = "Unlocked"
           /\ e.before.constraints.break_timer.until > e.time
           /\ e.after.constraints.break_timer = Locked(e.time + break_duration)

\* requirement i of reqs is incomplete and due at or before instant t
Overdue(reqs, i, t) == ~reqs[i].complete /\ reqs[i].due <= t

\* snapshot info names, as the reason for Locked, an overdue requirement at
\* position i or earlier
BlamesUpTo(info, reqs, i, t) ==
    /\ info.state = "Locked"
    /\ info.reason.type = "RequirementNotMet"
    /\ \E j \in 1..i : Overdue(reqs, j, t) /\ reqs[j].id = info.reason.id

\* C13: in every snapshot computed at T, if some incomplete requirement has
\* due <= T then the state is Locked with reason RequirementNotMet{id}, the
\* id being that of this requirement or of an earlier one in list order,
\* whatever the locked ranges and the break timer are.
C13_RequirementWins ==
    /\ \A i \in 1..Len(Now.requirements) :
          Overdue(Now.requirements, i, cache_time) =>
             BlamesUpTo(cached_info, Now.requirements, i, cache_time)
    /\ \A k \in 1..Len(refreshes) :
          LET e == refreshes[k]
              reqs == e.after.constraints.requirements
          IN  \A i \in 1..Len(reqs) :
                 Overdue(reqs, i, e.time) => BlamesUpTo(e.new_info, reqs, i, e.time)

\* a snapshot blames the second requirement of the list (the first one is
\* complete) at an instant inside a locked range, the break timer being Locked
C13_Witness ==
    \E k \in 1..Len(refreshes) :
       LET e == refreshes[k]
           c == e.after.constraints
       IN  /\ Len(c.requirements) >= 2
           /\ c.requirements[1].complete
           /\ Overdue(c.requirements, 2, e.time)
           /\ e.new_info.reason = Reason("RequirementNotMet", c.requirements[2].id)
           /\ c.break_timer.type = "Locked"
           /\ \E r \in 1..Len(c.locked_time_ranges) :
                 LET ltr == c.locked_time_ranges[r]
                 IN  /\ ltr.start.some => ltr.start.v <= e.time
                     /\ ltr.end.some => e.time < ltr.end.v

\* C14: add_requirement(T, name, due) always succeeds; after the
\* recomputation at T (rollover included) it appends exactly one requirement
\* at the end of the list, with an id above every id issued so far,
\* complete = false and due at the given time of day on date_of(T); the
\* requirements already there, the ranges, the break timer and the override
\* are what they were before the append, and the lists are still those after
\* the closing recomputation.
C14_AddRequirement ==
    response.op = "add_requirement" =>
       /\ response.kind = "Success"
       /\ Len(refreshes) = 2
       /\ LET a == refreshes[1].after
              b == refreshes[2].before
              n == Len(a.constraints.requirements)
              new == b.constraints.requirements[n + 1]
          IN  /\ a.current_date = get_date(response.time)
              /\ Len(b.constraints.requirements) = n + 1
              /\ SubSeq(b.constraints.requirements, 1, n) = a.constraints.requirements
              /\ new.id > a.last_id
              /\ new.id = b.last_id
              /\ new.id \notin IssuedIds(a.constraints)
              /\ new.name \in AddNames
              /\ new.complete = FALSE
              /\ new.due = get_date(response.time) * DayLen + response.arg
              /\ b.constraints.locked_time_ranges = a.constraints.locked_time_ranges
              /\ b.constraints.break_timer = a.constraints.break_timer
              /\ b.constraints.deactivated_until = a.constraints.deactivated_until
              /\ b.current_date = a.current_date
              /\ Now.requirements = b.constraints.requirements
              /\ Now.locked_time_ranges = b.constraints.locked_time_ranges

\* a requirement added on a new day, while an override is in force and the
\* break timer is not idle
C14_Witness ==
    /\ response.op = "add_requirement"
    /\ Len(refreshes) = 2
    /\ RolledOver(refreshes[1])
    /\ Len(Now.requirements) = Len(ConfigRequirements) + 1
    /\ refreshes[2].before.constraints.deactivated_until.some
    /\ refreshes[2].before.constraints.break_timer.type # "Unlockable"

\* what refresh(now) is to leave of a timer, case by case
RefreshedTimer(timer, now) ==
    CASE timer.type = "Unlocked" /\ now < timer.until -> timer
      [] timer.type = "Unlocked" /\ now >= timer.until
                                 /\ now < timer.until + break_duration ->
           Locked(timer.until + break_duration)
      [] timer.type = "Unlocked" /\ now >= timer.until + break_duration -> Unlockable
      [] timer.type = "Locked" /\ now < timer.until -> timer
      [] timer.type = "Locked" /\ now >= timer.until -> Unlockable
      [] OTHER -> Unlockable

\* C15: refresh(now) leaves Unlocked{until} unchanged while now < until and
\* turns it into Locked{until = until + break_duration}, anchored to the
\* expired until, once now >= until; it turns Locked{until} into Unlockable
\* once now >= until; both steps cascade within one call, so Unlocked{until}
\* with now >= until + break_duration ends Unlockable. Unlockable stays.
C15_Refresh ==
    bt_call.op = "refresh" =>
       /\ bt_call.after = RefreshedTimer(bt_call.before, bt_call.now)
       /\ bt_timer = bt_call.after

\* a late refresh of an expired work period: the break is anchored to the
\* expired until, not to now
C15_Witness ==
    /\ bt_call.op = "refresh"
    /\ bt_call.before.type = "Unlocked"
    /\ bt_call.now > bt_call.before.until
    /\ bt_call.after = Locked(bt_call.before.until + break_duration)

\* instants a refresh may be called at, up to the end of any pending period
RefreshTimes == 0..(MaxTime + work_period_duration + break_duration)

\* C16: the break timer's refresh is idempotent and order-independent for
\* non-decreasing instants: for every timer state and all t1 <= t2,
\* refresh(t1) followed by refresh(t2) leaves the same timer as refresh(t2)
\* alone, and refresh(t) twice leaves the same timer as refresh(t) once.
C16_RefreshComposes ==
    /\ (bt_call.op = "refresh" /\ bt_prev.op = "refresh") =>
          /\ bt_prev.now <= bt_call.now
          /\ bt_call.after = BreakTimerManager_refresh(bt_prev.before, bt_call.now)
          /\ bt_call.now = bt_prev.now => bt_call.after = bt_prev.after
    /\ \A t1, t2 \in RefreshTimes :
          t1 <= t2 =>
             BreakTimerManager_refresh(BreakTimerManager_refresh(bt_timer, t1), t2)
                = BreakTimerManager_refresh(bt_timer, t2)

\* two refreshes in a row, the first ending the work period and the second
\* ending the break
C16_Witness ==
    /\ bt_prev.op = "refresh"
    /\ bt_prev.before.type = "Unlocked"
    /\ bt_prev.after.type = "Locked"
    /\ bt_call.op = "refresh"
    /\ bt_call.now > bt_prev.now
    /\ bt_call.after = Unlockable

\* C17 as stated: a timer that is Unlockable before a break-timer call is
\* never Locked after it, and a timer that is Locked before a call is never
\* Unlocked after it.
C17_Original ==
    /\ bt_call.before.type = "Unlockable" => bt_call.after.type # "Locked"
    /\ bt_call.before.type = "Locked" => bt_call.after.type # "Unlocked"

\* C17: no break-timer call (unlock, lock, refresh) takes an Unlockable
\* timer to Locked. A timer that is Locked{until} before a call is Unlocked
\* after it only when the call is unlock(now) with now >= until: the
\* refresh that opens unlock first takes the expired lock to Unlockable,
\* and the timer ends Unlocked{until = now + work_period_duration}. While
\* now < until a Locked timer is left as it is by every call.
C17_NoDirectTransition ==
    /\ bt_call.before.type = "Unlockable" => bt_call.after.type # "Locked"
    /\ (bt_call.before.type = "Locked" /\ bt_call.after.type = "Unlocked") =>
          /\ bt_call.op = "unlock"
          /\ bt_call.ok
          /\ bt_call.now >= bt_call.before.until
          /\ BreakTimerManager_refresh(bt_call.before, bt_call.now) = Unlockable
          /\ bt_call.after = Unlocked(bt_call.now + work_period_duration)
    /\ (bt_call.before.type = "Locked" /\ bt_call.now < bt_call.before.until) =>
          bt_call.after = bt_call.before

\* unlock called on a lock that has run out but was not refreshed since:
\* Locked before the call, Unlocked after it
C17_Witness ==
    /\ bt_call.op = "unlock"
    /\ bt_call.before.type = "Locked"
    /\ bt_call.now >= bt_call.before.until
    /\ bt_call.after.type = "Unlocked"

\* the break timers recomputation e builds triggers for: the lazily
\* refreshed one of the first pass and the one it ends with
TriggerTimers(e) ==
    {FirstPass(e).constraints.break_timer, e.after.constraints.break_timer}

\* C18 as stated: Unlocked{until} gives exactly one lock-from trigger at
\* until, Locked{until} a lock-from trigger at the epoch and an unlock-at
\* trigger at until, Unlockable no trigger at all.
C18_Original ==
    \A k \in 1..Len(refreshes) :
       \A timer \in TriggerTimers(refreshes[k]) :
          BreakTimerChanges(timer) =
             CASE timer.type = "Unlocked" ->
                    << StateChange("BreakTimerLocked", 0, timer.until) >>
               [] timer.type = "Locked" ->
                    << StateChange("BreakTimerLocked", 0, TimestampZERO),
                       StateChange("BreakTimerUnlockable", 0, timer.until) >>
               [] OTHER -> <<>>

\* C18: the triggers the aggregate builds for the break timer are: for
\* Unlocked{until}, exactly one lock-from trigger at until; for
\* Locked{until}, a lock-from trigger at the epoch and an unlock-at
\* (BreakTimerUnlockable) trigger at until; for Unlockable, exactly one
\* BreakTimerUnlockable trigger at the epoch (Timestamp::ZERO). With these
\* triggers a snapshot that is not Locked shows the break timer's variant.
C18_BreakTimerTriggers ==
    \A k \in 1..Len(refreshes) :
       /\ refreshes[k].new_info.state # "Locked" =>
             refreshes[k].new_info.state =
                refreshes[k].after.constraints.break_timer.type
       /\ \A timer \in TriggerTimers(refreshes[k]) :
          LET sc == BreakTimerChanges(timer)
          IN  /\ timer.type = "Unlocked" =>
                    sc = << StateChange("BreakTimerLocked", 0, timer.until) >>
              /\ timer.type = "Locked" =>
                    sc = << StateChange("BreakTimerLocked", 0, TimestampZERO),
                            StateChange("BreakTimerUnlockable", 0, timer.until) >>
              /\ timer.type = "Unlockable" =>
                    sc = << StateChange("BreakTimerUnlockable", 0, TimestampZERO) >>

\* a snapshot computed while the break timer is Unlockable and nothing else
\* locks: its state is Unlockable
C18_Witness ==
    \E k \in 1..Len(refreshes) :
       LET e == refreshes[k]
       IN  /\ e.after.constraints.break_timer = Unlockable
           /\ e.before.constraints.break_timer.type = "Locked"
           /\ e.new_info.state = "Unlockable"

\* recomputing at the cache's as-of instant
Recompute == DiagonatorManagerInner_refresh(manager, cache_time)

\* C19: after every public operation has returned, with success or with an
\* error, recomputing the snapshot at cache_time yields a value equal to
\* cached_info and changes neither the break timer, the lists, the override,
\* the current date nor the id counter; so a get_info_if_changed that skips
\* the recomputation because T equals cache_time hides no change.
C19_CacheNeverStale ==
    /\ Recompute.info = cached_info
    /\ Recompute.manager = manager
    /\ (IsPoll(response) /\ refreshes = <<>>) =>
          /\ response.time = cache_time
          /\ response.kind = "Some" => response.info = <<Recompute.info>>

\* a poll skipped the recomputation right after an operation that changed
\* the snapshot, and answered with the cached value
C19_Witness ==
    /\ IsPoll(response)
    /\ refreshes = <<>>
    /\ response.kind = "Some"
    /\ response.version > 1
    /\ cached_info.state = "Unlocked"

\* C20: lock_timer(T) returns success exactly when the snapshot computed at
\* T, after the override has been cleared, has state Unlocked, and then the
\* timer ends Locked{until = T + break_duration}. When the break timer is
\* Unlocked with until > T but a requirement or a locked range is active at
\* T, the auto-lock inside that recomputation locks the timer first:
\* lock_timer returns the "not unlocked" error and the timer nevertheless
\* ends Locked{until = T + break_duration}.
C20_LockTimerOutcome ==
    response.op = "lock_timer" =>
       LET e == refreshes[1]
       IN  /\ e.time = response.time
           /\ e.before.constraints.deactivated_until = None
           /\ response.kind = "Success" <=> e.new_info.state = "Unlocked"
           /\ response.kind = "Success" =>
                 Now.break_timer = Locked(response.time + break_duration)
           /\ response.kind = "Error" =>
                 /\ response.msg = "Break timer is not unlocked."
                 /\ Len(refreshes) = 1
                 /\ Now.break_timer = e.after.constraints.break_timer
           /\ AutoLockFires(e) =>
                 /\ response.kind = "Error"
                 /\ Now.break_timer = Locked(response.time + break_duration)

\* lock_timer called during a work period that had not run out, under an
\* override, at an instant where something else locks: it fails and the
\* timer is Locked all the same
C20_Witness ==
    /\ response.op = "lock_timer"
    /\ response.kind = "Error"
    /\ Before.break_timer.type = "Unlocked"
    /\ Before.break_timer.until > response.time
    /\ Before.deactivated_until.some
    /\ Now.break_timer = Locked(response.time + break_duration)

====
